---- MODULE Spec2Model ----
(***************************************************************************)
(* slonik-plus: typed records mapped onto table rows, with batched,        *)
(* chunked insert / upsert / update / delete / select.                     *)
(*                                                                         *)
(* The model follows src/src/db-record.ts (record configuration, change    *)
(* tracking), src/src/query/set-worker.ts (dbSetWorker),                   *)
(* src/src/query/delete-worker.ts (dbDeleteWorker),                        *)
(* src/src/query/get-worker.ts (dbGetWorker) and src/src/pool-proto.ts     *)
(* (performQueries, createPoolPlus).  The database driver (slonik) is the  *)
(* environment: it answers every statement with a result or an error.      *)
(***************************************************************************)
EXTENDS Integers, Sequences, FiniteSets, TLC

(***************************************************************************)
(* Bounds of the model                                                     *)
(***************************************************************************)
\* longest batch of instances handed to one call
MaxBatch == 3
\* largest insertChunkMax / deleteChunkMax a pool is configured with
MaxChunk == 2

(***************************************************************************)
(* Sequence helpers                                                        *)
(***************************************************************************)
Range(s) == {s[i] : i \in 1..Len(s)}

MapSeq(s, F(_)) == [i \in 1..Len(s) |-> F(s[i])]

Includes(s, x) == \E i \in 1..Len(s) : s[i] = x

Min(a, b) == IF a < b THEN a ELSE b

\* Array.prototype.slice(i, j) with 0-based, end-exclusive indices
Slice(s, i, j) == SubSeq(s, i + 1, Min(j, Len(s)))

\* every sequence without repetition over the set S
RECURSIVE Perms(_)
Perms(S) ==
  IF S = {} THEN {<<>>}
  ELSE UNION {{<<x>> \o p : p \in Perms(S \ {x})} : x \in S}

(***************************************************************************)
(* JavaScript values.  A property map holds Absent where the object has no *)
(* own property of that name; reading it yields undefined.                 *)
(***************************************************************************)
Absent == [t |-> "absent", n |-> 0]
Undef == [t |-> "undefined", n |-> 0]
Null == [t |-> "null", n |-> 0]
True == [t |-> "boolean", n |-> 1]
Num(n) == [t |-> "number", n |-> n]
DateOf(n) == [t |-> "Date", n |-> n]
IsoString(n) == [t |-> "string", n |-> n]

\* obj[key]
Read(obj, key) == IF obj[key] = Absent THEN Undef ELSE obj[key]

\* v == null
IsNullish(v) == v \in {Undef, Null}

\* !v
IsFalsy(v) == v \in {Undef, Null, Num(0)}

\* +v >= 0
NonNegativeNumber(v) == v.t \in {"number", "boolean"} /\ v.n >= 0

(***************************************************************************)
(* Column and record configuration (db-record.ts)                          *)
(***************************************************************************)
\* A column declaration as written by the application; "unset" and "" stand
\* for an option that is not given.
ColumnDecl(prop, type) ==
  [prop |-> prop, name |-> "", type |-> type, in |-> "unset", out |-> "unset",
   exclude |-> FALSE, excludeFromUpdate |-> FALSE, primaryKey |-> Undef,
   autoLoad |-> TRUE, transformTimestamps |-> TRUE]

\* the case converter of the record decorator, on the property names in use
camelToSnake(key) == IF key = "createdAt" THEN "created_at" ELSE key

\* DbRecord.column: defaults merged with the declaration, and the default
\* timestamp transforms installed when in / out are not given
column(cfg) ==
  LET ts == cfg.type \in {"timestamptz", "timestamp"} /\ cfg.transformTimestamps
  IN [cfg EXCEPT
        !.in = IF cfg.in # "unset" THEN cfg.in ELSE IF ts THEN "tsIn" ELSE "true",
        !.out = IF cfg.out # "unset" THEN cfg.out ELSE IF ts THEN "tsOut" ELSE "true"]

\* DbRecord.record: the database name of every column
record(decl, convertCases) ==
  [i \in 1..Len(decl) |->
     LET config == column(decl[i])
     IN [config EXCEPT
           !.name = IF config.name # "" THEN config.name
                    ELSE IF convertCases THEN camelToSnake(config.prop)
                    ELSE config.prop]]

\* The record types of the application
RecordTypes == {"Item", "Pair", "Log"}

\* RecordConfig.table ("" : no table)
TableOf(T) ==
  CASE T = "Item" -> "items"
    [] T = "Pair" -> "app.pairs"
    [] OTHER -> ""

Declared(T) ==
  CASE T = "Item" ->
         << [ColumnDecl("id", "int4") EXCEPT !.primaryKey = True],
            ColumnDecl("name", "text"),
            [ColumnDecl("createdAt", "timestamptz") EXCEPT !.excludeFromUpdate = TRUE] >>
    [] T = "Pair" ->
         << [ColumnDecl("a", "int4") EXCEPT !.primaryKey = Num(1)],
            [ColumnDecl("b", "int4") EXCEPT !.primaryKey = Num(0)],
            ColumnDecl("v", "text") >>
    [] OTHER ->
         << ColumnDecl("msg", "text"),
            [ColumnDecl("secret", "text") EXCEPT !.out = "false"],
            [ColumnDecl("temp", "text") EXCEPT !.exclude = TRUE],
            [ColumnDecl("note", "text") EXCEPT !.name = "note-1"] >>

\* ctor.getConfig(): table and columns, in declaration order
getConfig(T) == [table |-> TableOf(T), columns |-> record(Declared(T), TRUE)]

Props(T) == {Declared(T)[i].prop : i \in 1..Len(Declared(T))}

ColumnDetail(config) == [name |-> config.prop, dbName |-> config.name, config |-> config]

getInsertColumns(T) ==
  MapSeq(SelectSeq(getConfig(T).columns,
                   LAMBDA c : c.out # "false" /\ ~c.exclude),
         ColumnDetail)

getSelectColumns(T) ==
  MapSeq(SelectSeq(getConfig(T).columns,
                   LAMBDA c : c.in # "false" /\ ~c.exclude),
         ColumnDetail)

\* Array.prototype.sort with (a, b) => +a.primaryKey - +b.primaryKey: stable
RECURSIVE SortByKey(_)
SortByKey(s) ==
  IF Len(s) <= 1 THEN s
  ELSE LET rest == SortByKey(Tail(s))
           k == Head(s).primaryKey.n
           before == SelectSeq(rest, LAMBDA c : c.primaryKey.n < k)
           after == SelectSeq(rest, LAMBDA c : c.primaryKey.n >= k)
       IN before \o <<Head(s)>> \o after

\* the primary keys in the order of their declaration
getPrimaryKeysAsDeclared(T) ==
  MapSeq(SelectSeq(getConfig(T).columns, LAMBDA c : NonNegativeNumber(c.primaryKey)),
         LAMBDA c : c.name)

\* lines 211-216
getPrimaryKeys(T) ==
  MapSeq(SortByKey(SelectSeq(getConfig(T).columns,
                             LAMBDA c : NonNegativeNumber(c.primaryKey))),
         LAMBDA c : c.name)

(***************************************************************************)
(* Record instances and the change tracker (db-record.ts)                  *)
(*                                                                         *)
(* An instance is [ctor, vals, snap, orig]: its record type, its own       *)
(* enumerable properties, whether _original is set, and _original.         *)
(***************************************************************************)
NoProps(T) == [p \in Props(T) |-> Absent]

\* new T(data): _original is undefined
NewRecord(T, data) == [ctor |-> T, vals |-> data, snap |-> FALSE, orig |-> NoProps(T)]

\* Object.keys(rec)
OwnKeys(rec) == {p \in DOMAIN rec.vals : rec.vals[p] # Absent}

\* saveState: _original = omit(this, '_original')
saveState(rec) == [rec EXCEPT !.snap = TRUE, !.orig = rec.vals]

\* a change tracker that takes no account of the snapshot
getChangedColumnsIgnoringSnapshot(rec) == getInsertColumns(rec.ctor)

\* getChangedColumns
getChangedColumns(rec) ==
  IF ~rec.snap THEN getInsertColumns(rec.ctor)
  ELSE SelectSeq(getInsertColumns(rec.ctor),
                 LAMBDA col : Read(rec.orig, col.name) # Read(rec.vals, col.name))

(***************************************************************************)
(* Column transforms                                                       *)
(***************************************************************************)
\* config.in as a function: (v) => (typeof v === 'number') ? new Date(v) : v
tsIn(v) == IF v.t = "number" THEN DateOf(v.n) ELSE v

\* config.out as a function: (d) => (d instanceof Date) ? d.toISOString() : d
tsOut(d) == IF d.t = "Date" THEN IsoString(d.n) ELSE d

IsFunction(f) == f \in {"tsIn", "tsOut"}

Apply(f, v) == IF f = "tsIn" THEN tsIn(v) ELSE IF f = "tsOut" THEN tsOut(v) ELSE v

(***************************************************************************)
(* utils/general.ts                                                        *)
(***************************************************************************)
\* the characters of the database names in use
Spell(s) ==
  CASE s = "id" -> <<"i", "d">>
    [] s = "name" -> <<"n", "a", "m", "e">>
    [] s = "created_at" -> <<"c", "r", "e", "a", "t", "e", "d", "_", "a", "t">>
    [] s = "a" -> <<"a">>
    [] s = "b" -> <<"b">>
    [] s = "v" -> <<"v">>
    [] s = "msg" -> <<"m", "s", "g">>
    [] s = "secret" -> <<"s", "e", "c", "r", "e", "t">>
    [] s = "temp" -> <<"t", "e", "m", "p">>
    [] s = "note-1" -> <<"n", "o", "t", "e", "-", "1">>
    [] OTHER -> <<>>

IdentifierStart ==
  {"a", "b", "c", "d", "e", "g", "i", "m", "n", "o", "p", "r", "s", "t", "v", "_"}

IdentifierPart == IdentifierStart \cup {"0", "1", "2", "$"}

\* /^[A-Za-z_][A-Za-z_0-9$]*$/.test(s)
isValidPostgresIdentifier(s) ==
  LET cs == Spell(s)
  IN /\ Len(cs) >= 1
     /\ cs[1] \in IdentifierStart
     /\ \A i \in 2..Len(cs) : cs[i] \in IdentifierPart

(***************************************************************************)
(* Call options.  One record serves select, write and delete; an option    *)
(* that is not passed holds its "unset" value.                             *)
(***************************************************************************)
NoOptions ==
  [startingQuery |-> FALSE, finalQuery |-> FALSE, transaction |-> FALSE,
   conflictKey |-> [given |-> FALSE, keys |-> <<>>],
   columns |-> [kind |-> "unset", list |-> <<>>],
   tableName |-> "", alterSql |-> FALSE, syncRecords |-> FALSE,
   resultType |-> "unset", whereClause |-> "unset", override |-> FALSE]

(***************************************************************************)
(* Statements.  A statement is a record of the parts the builders put      *)
(* into its text; parts a statement does not have are empty.               *)
(***************************************************************************)
NoConflict ==
  [present |-> FALSE, keys |-> <<>>, keysParens |-> FALSE, setTargets |-> <<>>,
   targetParens |-> FALSE, setValues |-> <<>>, valueParens |-> FALSE]

NoStatement ==
  [kind |-> "none", table |-> "", altered |-> FALSE, wrapped |-> FALSE,
   columns |-> <<>>, onConflict |-> NoConflict, setClause |-> <<>>,
   whereKeys |-> <<>>, whereTokens |-> <<>>, returning |-> <<>>,
   colDefinitionList |-> <<>>,
   objectBlock |-> <<>>, hasWhere |-> FALSE, whereGroups |-> <<>>,
   predicate |-> "none"]

\* the caller's startingQuery and finalQuery
StartingQuery == [NoStatement EXCEPT !.kind = "starting"]
FinalQuery == [NoStatement EXCEPT !.kind = "final"]

(***************************************************************************)
(* dbSetWorker (set-worker.ts): the part that runs before performQueries   *)
(***************************************************************************)
\* lines 116-119
ResultTypeOf(opt) ==
  LET given == IF opt.resultType = "unset" THEN "None" ELSE opt.resultType
  IN IF opt.syncRecords /\ given = "None" THEN "Record" ELSE given

\* line 131
TableNameOf(opt, ctor) == IF opt.tableName # "" THEN opt.tableName ELSE getConfig(ctor).table

\* line 136
primaryKeyColumnsOf(ctor) ==
  SelectSeq(getSelectColumns(ctor), LAMBDA c : Includes(getPrimaryKeys(ctor), c.dbName))

\* every declared property counts as known, carried or not
knownKeysOfDeclared(records) == Props(records[1].ctor)

\* lines 137-143, for a batch of one type
knownKeysOf(records) == UNION {OwnKeys(records[i]) : i \in 1..Len(records)}

\* the names of the columns that every instance reports as changed
allChangedNamesOfEvery(records) ==
  {name \in UNION {{c.name : c \in Range(getChangedColumns(records[i]))} : i \in 1..Len(records)} :
     \A i \in 1..Len(records) : \E c \in Range(getChangedColumns(records[i])) : c.name = name}

\* getColumns, lines 366-367
allChangedNamesOf(records) ==
  UNION {{c.name : c \in Range(getChangedColumns(records[i]))} : i \in 1..Len(records)}

\* getColumns: insertableColumns
insertableColumnsOf(records, mode, opt) ==
  LET ctor == records[1].ctor
      knownKeys == knownKeysOf(records)
      columns == SelectSeq(getInsertColumns(ctor), LAMBDA c : c.name \in knownKeys)
  IN IF opt.columns.kind = "list"
       THEN SelectSeq(columns, LAMBDA c : Includes(opt.columns.list, c.name))
     ELSE IF mode = "update"
       THEN SelectSeq(columns, LAMBDA c : c.name \in allChangedNamesOf(records))
     ELSE columns

\* every column written is also a column updated
updatableColumnsOfUnfiltered(records, mode, opt) == insertableColumnsOf(records, mode, opt)

\* getColumns: updatableColumns
updatableColumnsOf(records, mode, opt) ==
  SelectSeq(insertableColumnsOf(records, mode, opt), LAMBDA c : ~c.config.excludeFromUpdate)

\* createOutputObjects: outputColumns (a Map keyed by property name)
outputColumnsOf(records, mode, opt) ==
  LET ctor == records[1].ctor
      insertable == insertableColumnsOf(records, mode, opt)
      names == {c.name : c \in Range(insertable)}
  IN IF (mode = "upsert" /\ ~opt.conflictKey.given) \/ mode = "update"
       THEN insertable \o SelectSeq(primaryKeyColumnsOf(ctor), LAMBDA pk : pk.name \notin names)
     ELSE insertable

\* createOutputObjects: colDefinitionList
RECURSIVE colDefinitionsOf(_, _)
colDefinitionsOf(outputColumns, mode) ==
  IF outputColumns = <<>> THEN << [name |-> "__dbRecordIndex__", original |-> FALSE, type |-> "int4"] >>
  ELSE LET c == Head(outputColumns)
           own == << [name |-> c.dbName, original |-> FALSE, type |-> c.config.type] >>
           orig == IF mode = "update" /\ c.config.primaryKey # Undef
                     THEN << [name |-> c.dbName, original |-> TRUE, type |-> c.config.type] >>
                   ELSE <<>>
       IN own \o orig \o colDefinitionsOf(Tail(outputColumns), mode)

\* createOutputObjects: the encoded record of one instance.  fields holds
\* res[dbKey], originals holds res[`original_${dbKey}`].
outputObjectOf(rec, recordIndex, records, mode, opt) ==
  LET outputColumns == outputColumnsOf(records, mode, opt)
      knownKeys == knownKeysOf(records)
      insertable == insertableColumnsOf(records, mode, opt)
      transformerOf(name) ==
        IF \E c \in Range(insertable) : c.name = name
          THEN (CHOOSE c \in Range(insertable) : c.name = name).config.out
        ELSE "none"
      valueOf(c) ==
        LET own == Read(rec.vals, c.name)
            value == IF ~IsNullish(own) THEN own
                     ELSE IF c.name \in knownKeys THEN Null ELSE Undef
        IN IF ~IsNullish(value) /\ IsFunction(transformerOf(c.name))
             THEN Apply(transformerOf(c.name), value)
           ELSE value
      originalOf(c) == IF rec.snap THEN Read(rec.orig, c.name) ELSE Read(rec.vals, c.name)
      keyed == IF mode = "update"
                 THEN {c \in Range(outputColumns) : c.config.primaryKey # Undef}
               ELSE {}
  IN [fields |-> [k \in {c.dbName : c \in Range(outputColumns)} |->
                    valueOf(CHOOSE c \in Range(outputColumns) : c.dbName = k)],
      originals |-> [k \in {c.dbName : c \in keyed} |->
                    originalOf(CHOOSE c \in keyed : c.dbName = k)],
      index |-> recordIndex]

\* createOutputObjects: outputObjects (recordIndex counts from 0)
outputObjectsOf(records, mode, opt) ==
  [i \in 1..Len(records) |-> outputObjectOf(records[i], i - 1, records, mode, opt)]

\* an ON CONFLICT clause for every statement that has conflict keys, plain
\* inserts included
upsertStatementOfAnyMode(records, mode, opt) ==
  LET updatableKeyMap == updatableColumnsOf(records, mode, opt)
      conflictKeys == IF opt.conflictKey.given THEN opt.conflictKey.keys
                      ELSE getPrimaryKeys(records[1].ctor)
  IN IF Len(conflictKeys) > 0
       THEN [present |-> TRUE,
             keys |-> conflictKeys,
             keysParens |-> TRUE,
             setTargets |-> MapSeq(updatableKeyMap, LAMBDA c : c.dbName),
             targetParens |-> ~(Len(insertableColumnsOf(records, mode, opt)) < 2),
             setValues |-> MapSeq(updatableKeyMap, LAMBDA c : c.dbName),
             valueParens |-> ~(Len(updatableKeyMap) < 2)]
     ELSE NoConflict

\* createQueries, lines 219-244: the ON CONFLICT clause
upsertStatementOf(records, mode, opt) ==
  LET ctor == records[1].ctor
      keyMap == insertableColumnsOf(records, mode, opt)
      updatableKeyMap == updatableColumnsOf(records, mode, opt)
      conflictKeys == IF opt.conflictKey.given THEN opt.conflictKey.keys
                      ELSE getPrimaryKeys(ctor)
  IN IF mode = "upsert" /\ Len(conflictKeys) > 0
       THEN [present |-> TRUE,
             keys |-> conflictKeys,
             keysParens |-> TRUE,
             setTargets |-> MapSeq(updatableKeyMap, LAMBDA c : c.dbName),
             targetParens |-> ~(Len(keyMap) < 2),
             setValues |-> MapSeq(updatableKeyMap, LAMBDA c : c.dbName),
             valueParens |-> ~(Len(updatableKeyMap) < 2)]
     ELSE NoConflict

\* prepareQuery: returningColumns
returningColumnsOf(ctor, opt) ==
  IF ResultTypeOf(opt) = "None" THEN <<>>
  ELSE IF ResultTypeOf(opt) = "Record" THEN MapSeq(getSelectColumns(ctor), LAMBDA c : c.dbName)
  ELSE MapSeq(primaryKeyColumnsOf(ctor), LAMBDA c : c.dbName)

\* the WHERE clause comparing each key with the field of the same name
updateWhereClauseTokensCurrent(primaryKeys) ==
  MapSeq(primaryKeys, LAMBDA k : [column |-> k, field |-> k, original |-> FALSE])

\* createQueries: updateWhereClauseTokens; one comparison per primary key,
\* __update_table__.k = __source__.original_k
updateWhereClauseTokens(primaryKeys) ==
  MapSeq(primaryKeys, LAMBDA k : [column |-> k, field |-> k, original |-> TRUE])

\* prepareQuery: the statement of one chunk, passed through alterSql if given
prepareQuery(objectBlock, records, mode, opt) ==
  LET ctor == records[1].ctor
      base == [NoStatement EXCEPT
                 !.table = TableNameOf(opt, ctor),
                 !.altered = opt.alterSql,
                 !.wrapped = ResultTypeOf(opt) # "None",
                 !.returning = returningColumnsOf(ctor, opt),
                 !.colDefinitionList = colDefinitionsOf(outputColumnsOf(records, mode, opt), mode),
                 !.objectBlock = objectBlock]
  IN IF mode = "update"
       THEN [base EXCEPT
               !.kind = "update",
               !.setClause = MapSeq(updatableColumnsOf(records, mode, opt), LAMBDA c : c.dbName),
               !.hasWhere = TRUE,
               !.whereKeys = getPrimaryKeys(ctor),
               !.whereTokens = updateWhereClauseTokens(getPrimaryKeys(ctor))]
     ELSE [base EXCEPT
             !.kind = "insert",
             !.columns = MapSeq(insertableColumnsOf(records, mode, opt), LAMBDA c : c.dbName),
             !.onConflict = upsertStatementOf(records, mode, opt)]

\* for (i = 0; i < length; i += chunkMax) over a non-empty list: with a
\* limit below 1 the index never reaches the length, and every turn of the
\* loop adds a statement of an empty chunk
chunkLoopNeverEnds(chunkMax) == chunkMax < 1

\* chunks of exactly chunkMax elements: what is left over after the last
\* whole chunk is not sent
RECURSIVE ChunksFromWholeOnly(_, _, _)
ChunksFromWholeOnly(list, i, chunkMax) ==
  IF i + chunkMax > Len(list) THEN <<>>
  ELSE <<Slice(list, i, i + chunkMax)>> \o ChunksFromWholeOnly(list, i + chunkMax, chunkMax)

\* the chunks of a list: for (i = 0; i < length; i += chunkMax) slice(i, i + chunkMax)
RECURSIVE ChunksFrom(_, _, _)
ChunksFrom(list, i, chunkMax) ==
  IF ~(i < Len(list)) THEN <<>>
  ELSE <<Slice(list, i, i + chunkMax)>> \o ChunksFrom(list, i + chunkMax, chunkMax)

\* createQueries, lines 259-268
createQueries(records, mode, opt, insertChunkMax) ==
  MapSeq(ChunksFrom(outputObjectsOf(records, mode, opt), 0, insertChunkMax),
         LAMBDA objectBlock : prepareQuery(objectBlock, records, mode, opt))

\* the checks of dbSetWorker without the one for a type without primary key
dbSetWorkerErrorNoKeyCheck(records, mode, opt) ==
  IF Len(records) = 0 THEN "EmptyBatch"
  ELSE IF opt.alterSql /\ opt.syncRecords THEN "IncompatibleOptions"
  ELSE IF TableNameOf(opt, records[1].ctor) = "" THEN "MissingTable"
  ELSE IF \E i \in 1..Len(records) : records[i].ctor # records[1].ctor THEN "MixedTypes"
  ELSE IF \/ mode = "update" /\ Len(updatableColumnsOf(records, mode, opt)) = 0
          \/ Len(insertableColumnsOf(records, mode, opt)) = 0
         THEN "NoColumnsToUpdate"
  ELSE IF \E c \in Range(outputColumnsOf(records, mode, opt)) : ~isValidPostgresIdentifier(c.dbName)
         THEN "InvalidIdentifier"
  ELSE "none"

\* The error dbSetWorker throws before it calls performQueries, "none" when
\* it throws nothing; the checks in the order of the code.
dbSetWorkerError(records, mode, opt) ==
  IF Len(records) = 0 THEN "EmptyBatch"
  ELSE IF opt.alterSql /\ opt.syncRecords THEN "IncompatibleOptions"
  ELSE IF TableNameOf(opt, records[1].ctor) = "" THEN "MissingTable"
  ELSE IF \E i \in 1..Len(records) : records[i].ctor # records[1].ctor THEN "MixedTypes"
  ELSE IF \/ mode = "update" /\ Len(updatableColumnsOf(records, mode, opt)) = 0
          \/ Len(insertableColumnsOf(records, mode, opt)) = 0
         THEN "NoColumnsToUpdate"
  ELSE IF \E c \in Range(outputColumnsOf(records, mode, opt)) : ~isValidPostgresIdentifier(c.dbName)
         THEN "InvalidIdentifier"
  ELSE IF mode = "update" /\ Len(getPrimaryKeys(records[1].ctor)) = 0 THEN "MissingPrimaryKey"
  ELSE "none"

(***************************************************************************)
(* dbDeleteWorker (delete-worker.ts): the part before performQueries       *)
(***************************************************************************)
\* getWhereClause(true): the primary-key conditions of one instance
getWhereClause(rec) ==
  LET columns == getInsertColumns(rec.ctor)
      nameOf(k) == (CHOOSE c \in Range(columns) : c.dbName = k).name
  IN MapSeq(getPrimaryKeys(rec.ctor),
            LAMBDA k : [key |-> k, value |-> Read(rec.vals, nameOf(k))])

\* getWhereClause throws for a primary key whose value is falsy
getWhereClauseThrows(rec) ==
  \E i \in 1..Len(getWhereClause(rec)) : IsFalsy(getWhereClause(rec)[i].value)

\* lines 63-81
\* a builder that derives the predicate from the instances whenever
\* instances are passed
deleteQueriesByKeys(isCtor, records, ctor, opt, deleteChunkMax) ==
  LET base == [NoStatement EXCEPT
                 !.kind = "delete", !.table = TableNameOf(opt, ctor), !.hasWhere = TRUE]
  IN IF ~isCtor
       THEN MapSeq(ChunksFrom(records, 0, IF deleteChunkMax < 1 THEN 1 ELSE deleteChunkMax),
                   LAMBDA block : [base EXCEPT !.whereGroups = MapSeq(block, getWhereClause)])
     ELSE << [base EXCEPT !.predicate = opt.whereClause] >>

deleteQueries(isCtor, records, ctor, opt, deleteChunkMax) ==
  LET base == [NoStatement EXCEPT
                 !.kind = "delete", !.table = TableNameOf(opt, ctor), !.hasWhere = TRUE]
  IN IF opt.whereClause = "unset"
       THEN MapSeq(ChunksFrom(records, 0, deleteChunkMax),
                   LAMBDA block : [base EXCEPT !.whereGroups = MapSeq(block, getWhereClause)])
     ELSE << [base EXCEPT !.predicate = opt.whereClause] >>

\* lines 51-61: the failures raised before the chunk loop
BeforeChunkLoop == {"EmptyBatch", "MissingPredicate", "MissingTable"}

\* The error dbDeleteWorker throws before it calls performQueries.  An
\* instance of a type without primary keys makes getWhereClause return
\* undefined, which the SQL template tag refuses.
whereClauseError(rec) ==
  IF Len(getPrimaryKeys(rec.ctor)) = 0 THEN "UnexpectedValueExpression"
  ELSE IF getWhereClauseThrows(rec) THEN "MissingKeyValue"
  ELSE "none"

dbDeleteWorkerError(isCtor, records, ctor, opt) ==
  IF ~isCtor /\ Len(records) = 0 THEN "EmptyBatch"
  ELSE IF isCtor /\ opt.whereClause = "unset" THEN "MissingPredicate"
  ELSE IF TableNameOf(opt, ctor) = "" THEN "MissingTable"
  ELSE IF opt.whereClause # "unset" THEN "none"
  ELSE IF \E i \in 1..Len(records) : whereClauseError(records[i]) # "none"
         THEN LET first == CHOOSE i \in 1..Len(records) :
                             /\ whereClauseError(records[i]) # "none"
                             /\ \A j \in 1..(i - 1) : whereClauseError(records[j]) = "none"
              IN whereClauseError(records[first])
  ELSE "none"

(***************************************************************************)
(* dbGetWorker (get-worker.ts)                                             *)
(***************************************************************************)
\* lines 60-64
getColumnsOf(ctor, opt) ==
  SelectSeq(getSelectColumns(ctor),
            LAMBDA c : IF opt.columns.kind = "all" THEN TRUE
                       ELSE IF opt.columns.kind = "list" THEN Includes(opt.columns.list, c.name)
                       ELSE c.config.autoLoad)

\* lines 55-57
dbGetWorkerError(ctor, opt) ==
  IF TableNameOf(opt, ctor) = "" /\ ~opt.override THEN "MissingTable" ELSE "none"

\* lines 69-75
getQuery(ctor, opt) ==
  IF opt.override THEN [NoStatement EXCEPT !.kind = "override"]
  ELSE [NoStatement EXCEPT
          !.kind = "select", !.table = TableNameOf(opt, ctor),
          !.columns = MapSeq(getColumnsOf(ctor, opt), LAMBDA c : c.dbName)]

\* fixupResult: a row (database name -> value) becomes a snapshotted instance
fixupResult(ctor, opt, row) ==
  LET columns == getColumnsOf(ctor, opt)
      dbNameOf(p) == (CHOOSE c \in Range(getConfig(ctor).columns) : c.prop = p).name
      selected(key) == \E c \in Range(columns) : c.dbName = key
      transformerOf(key) == (CHOOSE c \in Range(columns) : c.dbName = key).config.in
      fixed(p) ==
        LET key == dbNameOf(p)
        IN IF key \notin DOMAIN row THEN Absent
           ELSE IF selected(key) /\ IsFunction(transformerOf(key))
             THEN Apply(transformerOf(key), row[key])
           ELSE IF IsNullish(row[key]) THEN Undef
           ELSE row[key]
  IN saveState(NewRecord(ctor, [p \in Props(ctor) |-> fixed(p)]))

(***************************************************************************)
(* createPoolPlus (pool-proto.ts)                                          *)
(***************************************************************************)
DefaultChunkMax == 2000

poolConfig == [insertChunkMax |-> DefaultChunkMax, deleteChunkMax |-> DefaultChunkMax]

\* mergeConfigs([poolConfig, plusConfig]); plusConfig may be undefined
mergeConfigs(base, plusConfig) == IF plusConfig.given THEN plusConfig.value ELSE base

\* the plusConfig arguments of the model: none, or both limits set, to
\* numbers from 1 on or to 0
PlusConfigs ==
  {[given |-> FALSE, value |-> poolConfig]} \cup
  {[given |-> TRUE,
    value |-> [insertChunkMax |-> a, deleteChunkMax |-> MaxChunk + 1 - a]] : a \in 1..MaxChunk}
  \cup {[given |-> TRUE, value |-> [insertChunkMax |-> 0, deleteChunkMax |-> 0]]}

(***************************************************************************)
(* The database.  It answers a statement with rows or with an error.       *)
(***************************************************************************)
\* A DELETE whose WHERE keyword is followed by nothing is no SQL statement
Malformed(stmt) ==
  stmt.kind = "delete" /\ stmt.hasWhere /\ stmt.whereGroups = <<>>
    /\ stmt.predicate \in {"none", "empty"}

\* the errors a statement can be answered with
DbErrors(stmt) ==
  IF Malformed(stmt) THEN {"SyntaxError"} ELSE {"UniqueViolation", "ConnectionLost"}

\* what the database hands back for a value it was given
Stored(v) == IF v.t = "string" THEN Num(v.n) ELSE v

\* the value of column k in the row the database returns for an encoded
\* record: the value written, or one the database generated
DbValue(obj, k) ==
  IF k \in DOMAIN obj.fields /\ ~IsNullish(obj.fields[k]) THEN Stored(obj.fields[k])
  ELSE Num(10 + obj.index)

\* a row of a caller's own statement: no __dbRecordIndex__, other columns
ForeignRow == [idx |-> 0 - 1, cols |-> [k \in {"set_config"} |-> Num(1)]]

\* The row sets a statement can be answered with.  A write statement that
\* asks for rows returns rows of its own records, any of them in any order.
DbRows(stmt) ==
  IF Malformed(stmt) THEN {}
  ELSE IF stmt.kind \in {"starting", "final"} THEN {<<>>, <<ForeignRow>>}
  ELSE IF stmt.kind \in {"insert", "update"} /\ stmt.wrapped
    THEN LET n == Len(stmt.objectBlock)
             orders == UNION {Perms(S) : S \in SUBSET (1..n)}
         IN {[j \in 1..Len(o) |->
                [idx |-> stmt.objectBlock[o[j]].index,
                 cols |-> [k \in Range(stmt.returning) |-> DbValue(stmt.objectBlock[o[j]], k)]]]
             : o \in orders}
  ELSE {<<>>}

(***************************************************************************)
(* dbSetWorker: reconciliation (updateDbRecordObjects)                     *)
(***************************************************************************)
\* for (const result of results) for (const row of result.rows)
RECURSIVE RowsOf(_)
RowsOf(results) ==
  IF results = <<>> THEN <<>> ELSE Head(results).rows \o RowsOf(Tail(results))

\* a lookup by the row's place among the returned rows, which agrees with
\* line 179 only while the database returns the rows in the order sent
dbRecordObjectIndexByPosition(row, position) == position

\* line 179: the index into the batch at which a row's instance is looked
\* up (position: the row's place among all returned rows, from 0)
dbRecordObjectIndex(row, position) == row.idx

\* lines 180-182
columnSetOf(ctor, opt) ==
  IF ResultTypeOf(opt) = "PrimaryKeys" THEN primaryKeyColumnsOf(ctor)
  ELSE getSelectColumns(ctor)

\* lines 185-194
columnDataOf(row, columnSet) ==
  [name \in {c.name : c \in Range(columnSet)} |->
     LET col == CHOOSE c \in Range(columnSet) : c.name = name
         value == row.cols[col.dbName]
     IN IF ~IsNullish(value) /\ IsFunction(col.config.in)
          THEN Apply(col.config.in, value)
        ELSE value]

\* Object.assign(dbRecordObject, columnData)
assign(rec, columnData) ==
  [rec EXCEPT !.vals = [p \in DOMAIN rec.vals |->
                          IF p \in DOMAIN columnData THEN columnData[p] ELSE rec.vals[p]]]

\* updateDbRecordObjects over the rows from `position` on: the instances
\* afterwards, and whether Object.assign threw for want of a target.  A row
\* without an expected column makes the function return.
RECURSIVE updateDbRecordObjects(_, _, _, _)
updateDbRecordObjects(records, rows, position, columnSet) ==
  IF rows = <<>> THEN [records |-> records, thrown |-> FALSE]
  ELSE LET row == Head(rows)
           at == dbRecordObjectIndex(row, position)
       IN IF \E c \in Range(columnSet) : c.dbName \notin DOMAIN row.cols \/ c.config.in = "false"
            THEN [records |-> records, thrown |-> FALSE]
          ELSE IF at \notin 0..(Len(records) - 1)
            THEN [records |-> records, thrown |-> TRUE]
          ELSE updateDbRecordObjects(
                 [records EXCEPT ![at + 1] = assign(records[at + 1], columnDataOf(row, columnSet))],
                 Tail(rows), position + 1, columnSet)

(***************************************************************************)
(* The inputs of the model: record instances, batches and options          *)
(***************************************************************************)
ItemVals(id, name, createdAt) ==
  [p \in Props("Item") |-> IF p = "id" THEN id ELSE IF p = "name" THEN name ELSE createdAt]

PairVals(a, b, v) ==
  [p \in Props("Pair") |-> IF p = "a" THEN a ELSE IF p = "b" THEN b ELSE v]

LogVals(msg, secret, note) ==
  [p \in Props("Log") |->
     IF p = "msg" THEN msg ELSE IF p = "secret" THEN secret
     ELSE IF p = "note" THEN note ELSE Absent]

Kinds(T) ==
  CASE T = "Item" -> {"fresh", "partial", "clean", "dirtyValue", "dirtyKey", "dirtyStamp",
                      "zeroKey", "nullKey"}
    [] T = "Pair" -> {"fresh", "clean", "dirtyValue", "dirtyKey"}
    [] OTHER -> {"fresh", "clean", "noted", "secretOnly"}

\* a loaded instance whose property p was then set to v
Dirty(rec, p, v) == [rec EXCEPT !.vals[p] = v]

\* The instance of type T and of the given kind that stands at place i of a
\* batch: newly constructed, or snapshotted and then changed by the caller.
Instance(T, kind, i) ==
  LET item == ItemVals(Num(i), Num(i), DateOf(i))
      pair == PairVals(Num(i), Num(i), Num(i))
      log == LogVals(Num(i), Num(i), Absent)
  IN CASE T = "Item" /\ kind = "fresh" -> NewRecord(T, ItemVals(Num(i), Num(i), Absent))
       [] T = "Item" /\ kind = "partial" -> NewRecord(T, ItemVals(Absent, Num(i), DateOf(i)))
       [] T = "Item" /\ kind = "clean" -> saveState(NewRecord(T, item))
       [] T = "Item" /\ kind = "dirtyValue" -> Dirty(saveState(NewRecord(T, item)), "name", Num(i + 4))
       [] T = "Item" /\ kind = "dirtyKey" -> Dirty(saveState(NewRecord(T, item)), "id", Num(i + 4))
       [] T = "Item" /\ kind = "dirtyStamp" ->
            Dirty(saveState(NewRecord(T, item)), "createdAt", DateOf(i + 4))
       [] T = "Item" /\ kind = "zeroKey" -> NewRecord(T, ItemVals(Num(0), Num(i), Absent))
       [] T = "Item" /\ kind = "nullKey" -> NewRecord(T, ItemVals(Null, Num(i), Absent))
       [] T = "Pair" /\ kind = "fresh" -> NewRecord(T, pair)
       [] T = "Pair" /\ kind = "clean" -> saveState(NewRecord(T, pair))
       [] T = "Pair" /\ kind = "dirtyValue" -> Dirty(saveState(NewRecord(T, pair)), "v", Num(i + 4))
       [] T = "Pair" /\ kind = "dirtyKey" -> Dirty(saveState(NewRecord(T, pair)), "b", Num(i + 4))
       [] T = "Log" /\ kind = "fresh" -> NewRecord(T, log)
       [] T = "Log" /\ kind = "clean" -> saveState(NewRecord(T, log))
       [] T = "Log" /\ kind = "noted" -> NewRecord(T, LogVals(Num(i), Absent, Num(i)))
       [] OTHER -> NewRecord(T, LogVals(Absent, Num(i), Absent))

PlainKinds == {"fresh", "clean"}
DirtyKinds == {"dirtyValue", "dirtyKey", "dirtyStamp"}

\* Batches of one type: the empty one, every length of one kind, and the
\* pairs of two kinds of which one is fresh or clean, or both are dirty.
Batches(T) ==
  {<<>>}
  \cup {[i \in 1..n |-> Instance(T, k, i)] : k \in Kinds(T), n \in 1..MaxBatch}
  \cup {<<Instance(T, k[1], 1), Instance(T, k[2], 2)>> :
          k \in {q \in Kinds(T) \X Kinds(T) :
                   /\ q[1] # q[2]
                   /\ \/ {q[1], q[2]} \cap PlainKinds # {}
                      \/ {q[1], q[2]} \subseteq DirtyKinds}}

\* Batches of more than one type
MixedBatches ==
  { <<Instance("Item", "fresh", 1), Instance("Pair", "fresh", 2)>>,
    <<Instance("Log", "fresh", 1), Instance("Item", "fresh", 2)>>,
    <<Instance("Pair", "clean", 1), Instance("Pair", "clean", 2), Instance("Item", "clean", 3)>> }

Modes == {"insert", "upsert", "update"}

\* options that bear on how the statements are run
RunOptions ==
  {[NoOptions EXCEPT !.startingQuery = s, !.finalQuery = f, !.transaction = t] :
     s \in BOOLEAN, f \in BOOLEAN, t \in BOOLEAN}

\* options that bear on what a write returns
ResultOptions ==
  {[o EXCEPT !.resultType = r] : o \in RunOptions, r \in {"unset", "Record", "PrimaryKeys"}}
  \cup {[NoOptions EXCEPT !.syncRecords = y, !.alterSql = a, !.resultType = r] :
          y \in BOOLEAN, a \in BOOLEAN, r \in {"unset", "None", "PrimaryKeys"}}

ColumnChoices(T) ==
  {[kind |-> "unset", list |-> <<>>], [kind |-> "all", list |-> <<>>]} \cup
  {[kind |-> "list", list |-> l] :
     l \in CASE T = "Item" -> {<<"name">>, <<"createdAt">>, <<"createdAt", "id">>}
             [] T = "Pair" -> {<<"v">>, <<"b">>}
             [] OTHER -> {<<"msg">>, <<"secret">>}}

ConflictKeyChoices(T) ==
  {[given |-> FALSE, keys |-> <<>>], [given |-> TRUE, keys |-> <<>>]} \cup
  {[given |-> TRUE, keys |-> l] :
     l \in CASE T = "Item" -> {<<"name">>}
             [] T = "Pair" -> {<<"a">>}
             [] OTHER -> {<<"msg">>}}

\* options that bear on what statements a write builds
BuildOptions(T) ==
  {[NoOptions EXCEPT !.columns = c, !.tableName = n] :
     c \in ColumnChoices(T), n \in {"", "t"}}
  \cup {[NoOptions EXCEPT !.conflictKey = k, !.tableName = n] :
          k \in ConflictKeyChoices(T), n \in {"", "t"}}

\* the calls of insert, upsert and update
SetCalls ==
  {[records |-> [i \in 1..n |-> Instance("Item", "fresh", i)], mode |-> m, opt |-> o] :
     n \in 0..MaxBatch, m \in Modes, o \in ResultOptions}
  \cup UNION {{[records |-> b, mode |-> m, opt |-> o] :
                 b \in Batches(T), m \in Modes, o \in BuildOptions(T)} : T \in RecordTypes}
  \cup {[records |-> b, mode |-> m, opt |-> NoOptions] : b \in MixedBatches, m \in Modes}
  \cup {[records |-> b, mode |-> m,
         opt |-> [NoOptions EXCEPT !.startingQuery = TRUE, !.tableName = n]] :
          b \in Batches("Log") \cup MixedBatches, m \in Modes, n \in {"", "t"}}
  \cup {[records |-> b, mode |-> m,
         opt |-> [NoOptions EXCEPT !.alterSql = TRUE, !.syncRecords = TRUE, !.tableName = "t"]] :
          b \in Batches("Log"), m \in Modes}

WhereClauses == {"unset", "empty", "predicate"}

\* the calls of delete: by instances, or by record type
DeleteCalls ==
  {[isCtor |-> FALSE, ctor |-> "Item", records |-> [i \in 1..n |-> Instance("Item", "fresh", i)],
    opt |-> o] : n \in 1..MaxBatch, o \in RunOptions}
  \cup UNION {{[isCtor |-> FALSE, ctor |-> T, records |-> b,
                opt |-> [NoOptions EXCEPT !.whereClause = w, !.tableName = n]] :
                 b \in Batches(T), w \in WhereClauses, n \in {"", "t"}} : T \in RecordTypes}
  \cup {[isCtor |-> FALSE, ctor |-> b[1].ctor, records |-> b, opt |-> NoOptions] : b \in MixedBatches}
  \cup {[isCtor |-> TRUE, ctor |-> T, records |-> <<>>,
         opt |-> [o EXCEPT !.whereClause = w, !.tableName = n]] :
          T \in RecordTypes, o \in RunOptions, w \in WhereClauses, n \in {"", "t"}}

\* the calls of the select methods
GetCalls ==
  UNION {{[method |-> m, ctor |-> T,
           opt |-> [NoOptions EXCEPT
                      !.columns = c, !.tableName = n, !.override = v, !.transaction = t]] :
            m \in {"any", "maybeOne"}, c \in ColumnChoices(T), n \in {"", "t"},
            v \in BOOLEAN, t \in BOOLEAN} : T \in RecordTypes}

(***************************************************************************)
(* State                                                                   *)
(***************************************************************************)
VARIABLES
  config,    \* pool.config
  pc,        \* where the call in progress stands
  op,        \* the call in progress: worker, mode, arguments
  recs,      \* the instances of the call: passed in, or hydrated by a select
  queries,   \* the statements the worker built
  handle,    \* the connection performQueries runs on
  txCount,   \* calls of pool.transaction() made by the call
  sent,      \* the statements handed to the driver, with the connection used
  res,       \* the results collected so far
  rejected,  \* the error the driver rejected a statement of the call with
  outcome,   \* how the call ended
  returned   \* the list handed back to the caller

vars ==
  <<config, pc, op, recs, queries, handle, txCount, sent, res, rejected, outcome, returned>>

NoOp ==
  [worker |-> "none", mode |-> "none", isCtor |-> FALSE, ctor |-> "none",
   method |-> "none", opt |-> NoOptions]

NoOutcome == [status |-> "none", error |-> "none"]
Threw(e) == [status |-> "throw", error |-> e]
Resolved == [status |-> "ok", error |-> "none"]

Init ==
  /\ config \in {mergeConfigs(poolConfig, plusConfig) : plusConfig \in PlusConfigs}
  /\ pc = "idle"
  /\ op = NoOp
  /\ recs = <<>>
  /\ queries = <<>>
  /\ handle = "none"
  /\ txCount = 0
  /\ sent = <<>>
  /\ res = <<>>
  /\ rejected = "none"
  /\ outcome = NoOutcome
  /\ returned = <<>>

(***************************************************************************)
(* insert / upsert / update: dbSetWorker up to its call of performQueries  *)
(***************************************************************************)
\* a worker that validates inside the transaction, after the caller's
\* starting statement went out
dbSetWorkerValidatesLate(records, mode, opt) ==
  /\ pc = "idle"
  /\ op' = [NoOp EXCEPT !.worker = "set", !.mode = mode, !.opt = opt,
                        !.ctor = IF Len(records) > 0 THEN records[1].ctor ELSE "none"]
  /\ recs' = records
  /\ IF dbSetWorkerError(records, mode, opt) # "none"
       THEN /\ pc' = "done"
            /\ outcome' = Threw(dbSetWorkerError(records, mode, opt))
            /\ queries' = <<>>
            /\ handle' = IF opt.transaction THEN "transaction" ELSE "pool.transaction"
            /\ txCount' = IF opt.transaction THEN txCount ELSE txCount + 1
            /\ sent' = IF opt.startingQuery
                         THEN <<[statement |-> StartingQuery, on |-> handle']>>
                       ELSE <<>>
       ELSE IF chunkLoopNeverEnds(config.insertChunkMax)
         THEN /\ pc' = "createQueries"
              /\ outcome' = NoOutcome
              /\ queries' = <<>>
              /\ UNCHANGED <<handle, txCount, sent>>
       ELSE /\ pc' = "perform"
            /\ outcome' = NoOutcome
            /\ queries' = createQueries(records, mode, opt, config.insertChunkMax)
            /\ UNCHANGED <<handle, txCount, sent>>
  /\ UNCHANGED <<config, res, rejected, returned>>

\* set-worker.ts lines 123-160
dbSetWorker(records, mode, opt) ==
  /\ pc = "idle"
  /\ op' = [NoOp EXCEPT !.worker = "set", !.mode = mode, !.opt = opt,
                        !.ctor = IF Len(records) > 0 THEN records[1].ctor ELSE "none"]
  /\ recs' = records
  /\ IF dbSetWorkerError(records, mode, opt) # "none"
       THEN /\ pc' = "done"
            /\ outcome' = Threw(dbSetWorkerError(records, mode, opt))
            /\ queries' = <<>>
       ELSE IF chunkLoopNeverEnds(config.insertChunkMax)
         THEN /\ pc' = "createQueries"
              /\ outcome' = NoOutcome
              /\ queries' = <<>>
       ELSE /\ pc' = "perform"
            /\ outcome' = NoOutcome
            /\ queries' = createQueries(records, mode, opt, config.insertChunkMax)
  /\ UNCHANGED <<config, handle, txCount, sent, res, rejected, returned>>

(***************************************************************************)
(* delete: dbDeleteWorker up to its call of performQueries                 *)
(***************************************************************************)
dbDeleteWorker(isCtor, ctor, records, opt) ==
  /\ pc = "idle"
  /\ op' = [NoOp EXCEPT !.worker = "delete", !.isCtor = isCtor, !.opt = opt,
                        !.ctor = IF isCtor THEN ctor
                                 ELSE IF Len(records) > 0 THEN records[1].ctor ELSE "none"]
  /\ recs' = records
  /\ IF dbDeleteWorkerError(isCtor, records, ctor, opt) \in BeforeChunkLoop
       THEN /\ pc' = "done"
            /\ outcome' = Threw(dbDeleteWorkerError(isCtor, records, ctor, opt))
            /\ queries' = <<>>
       ELSE IF opt.whereClause = "unset" /\ chunkLoopNeverEnds(config.deleteChunkMax)
         THEN /\ pc' = "createQueries"
              /\ outcome' = NoOutcome
              /\ queries' = <<>>
       ELSE IF dbDeleteWorkerError(isCtor, records, ctor, opt) # "none"
         THEN /\ pc' = "done"
              /\ outcome' = Threw(dbDeleteWorkerError(isCtor, records, ctor, opt))
              /\ queries' = <<>>
       ELSE /\ pc' = "perform"
            /\ outcome' = NoOutcome
            /\ queries' = deleteQueries(isCtor, records, ctor, opt, config.deleteChunkMax)
  /\ UNCHANGED <<config, handle, txCount, sent, res, rejected, returned>>

(***************************************************************************)
(* performQueries (pool-proto.ts)                                          *)
(***************************************************************************)
\* a performQueries that opens a transaction of its own in every call
performQueriesOwnTransaction ==
  /\ pc = "perform"
  /\ handle' = "pool.transaction"
  /\ txCount' = txCount + 1
  /\ pc' = "handleTransaction"
  /\ UNCHANGED <<config, op, recs, queries, sent, res, rejected, outcome, returned>>

\* lines 22-24: run on the caller's transaction, or open one
performQueries ==
  /\ pc = "perform"
  /\ IF op.opt.transaction
       THEN handle' = "transaction" /\ txCount' = txCount
       ELSE handle' = "pool.transaction" /\ txCount' = txCount + 1
  /\ pc' = "handleTransaction"
  /\ UNCHANGED <<config, op, recs, queries, sent, res, rejected, outcome, returned>>

\* an order that sends the caller's final statement before the worker's
handleTransactionPlanFinalFirst(qs, startingQuery, finalQuery) ==
  (IF startingQuery THEN <<StartingQuery>> ELSE <<>>)
  \o (IF finalQuery THEN <<FinalQuery>> ELSE <<>>)
  \o qs

\* lines 27-35: the statements handleTransaction sends, in its order
handleTransactionPlan(qs, startingQuery, finalQuery) ==
  (IF startingQuery THEN <<StartingQuery>> ELSE <<>>)
  \o qs
  \o (IF finalQuery THEN <<FinalQuery>> ELSE <<>>)

Plan == handleTransactionPlan(queries, op.opt.startingQuery, op.opt.finalQuery)

\* t.query(...): the next statement goes to the driver
query ==
  /\ pc = "handleTransaction"
  /\ Len(sent) < Len(Plan)
  /\ sent' = Append(sent, [statement |-> Plan[Len(sent) + 1], on |-> handle])
  /\ pc' = "await"
  /\ UNCHANGED <<config, op, recs, queries, handle, txCount, res, rejected, outcome, returned>>

\* the awaited t.query resolves: res.push(...)
queryResolves ==
  /\ pc = "await"
  /\ op.worker # "get"
  /\ \E rows \in DbRows(sent[Len(sent)].statement) :
       res' = Append(res, [statement |-> Len(sent), rows |-> rows])
  /\ pc' = "handleTransaction"
  /\ UNCHANGED <<config, op, recs, queries, handle, txCount, sent, rejected, outcome, returned>>

\* a handleTransaction that takes a failed statement for one without rows
\* and carries on
queryRejectsAndContinues ==
  /\ pc = "await"
  /\ \E e \in DbErrors(sent[Len(sent)].statement) : rejected' = e
  /\ res' = Append(res, [statement |-> Len(sent), rows |-> <<>>])
  /\ pc' = "handleTransaction"
  /\ UNCHANGED <<config, op, recs, queries, handle, txCount, sent, outcome, returned>>

\* a rejection after which the worker still snapshots its instances
queryRejectsAfterSaveState ==
  /\ pc = "await"
  /\ \E e \in DbErrors(sent[Len(sent)].statement) :
       /\ rejected' = e
       /\ outcome' = Threw(e)
  /\ recs' = MapSeq(recs, saveState)
  /\ pc' = "done"
  /\ UNCHANGED <<config, op, queries, handle, txCount, sent, res, returned>>

\* the awaited query rejects: the error leaves handleTransaction,
\* performQueries and the worker
queryRejects ==
  /\ pc = "await"
  /\ \E e \in DbErrors(sent[Len(sent)].statement) :
       /\ rejected' = e
       /\ outcome' = Threw(e)
  /\ pc' = "done"
  /\ UNCHANGED <<config, op, recs, queries, handle, txCount, sent, res, returned>>

(***************************************************************************)
(* The workers after performQueries                                        *)
(***************************************************************************)
\* a worker that snapshots the instances before it reconciles them
dbSetWorkerReturnsSnapshotFirst ==
  /\ pc = "handleTransaction"
  /\ op.worker = "set"
  /\ Len(sent) = Len(Plan)
  /\ LET saved == MapSeq(recs, saveState)
         synced == IF ResultTypeOf(op.opt) # "None"
                     THEN updateDbRecordObjects(saved, RowsOf(res), 0, columnSetOf(op.ctor, op.opt))
                   ELSE [records |-> saved, thrown |-> FALSE]
     IN /\ recs' = synced.records
        /\ outcome' = IF synced.thrown THEN Threw("TypeError") ELSE Resolved
        /\ returned' = IF synced.thrown THEN returned ELSE res
  /\ pc' = "done"
  /\ UNCHANGED <<config, op, queries, handle, txCount, sent, res, rejected>>

\* set-worker.ts lines 162-167: reconcile, snapshot every instance, return
dbSetWorkerReturns ==
  /\ pc = "handleTransaction"
  /\ op.worker = "set"
  /\ Len(sent) = Len(Plan)
  /\ LET synced == IF ResultTypeOf(op.opt) # "None"
                     THEN updateDbRecordObjects(recs, RowsOf(res), 0, columnSetOf(op.ctor, op.opt))
                   ELSE [records |-> recs, thrown |-> FALSE]
     IN IF synced.thrown
          THEN /\ recs' = synced.records
               /\ outcome' = Threw("TypeError")
               /\ returned' = returned
          ELSE /\ recs' = MapSeq(synced.records, saveState)
               /\ outcome' = Resolved
               /\ returned' = res
  /\ pc' = "done"
  /\ UNCHANGED <<config, op, queries, handle, txCount, sent, res, rejected>>

\* delete-worker.ts lines 85-87: snapshot every instance passed, return
dbDeleteWorkerReturns ==
  /\ pc = "handleTransaction"
  /\ op.worker = "delete"
  /\ Len(sent) = Len(Plan)
  /\ recs' = MapSeq(recs, saveState)
  /\ outcome' = Resolved
  /\ returned' = res
  /\ pc' = "done"
  /\ UNCHANGED <<config, op, queries, handle, txCount, sent, res, rejected>>

(***************************************************************************)
(* select: dbGetWorker                                                     *)
(***************************************************************************)
\* lines 51-78: validate, build the query and fire it
dbGetWorker(method, ctor, opt) ==
  /\ pc = "idle"
  /\ op' = [NoOp EXCEPT !.worker = "get", !.method = method, !.ctor = ctor, !.opt = opt]
  /\ IF dbGetWorkerError(ctor, opt) # "none"
       THEN /\ pc' = "done"
            /\ outcome' = Threw(dbGetWorkerError(ctor, opt))
            /\ UNCHANGED <<queries, sent>>
       ELSE /\ pc' = "await"
            /\ outcome' = NoOutcome
            /\ queries' = <<getQuery(ctor, opt)>>
            /\ sent' = <<[statement |-> getQuery(ctor, opt),
                          on |-> IF opt.transaction THEN "transaction" ELSE "pool"]>>
  /\ UNCHANGED <<config, recs, handle, txCount, res, rejected, returned>>

\* the rows a select can be answered with: none, or rows that hold a value
\* or SQL null in every column
SelectRows(method) ==
  UNION {[1..n -> BOOLEAN] : n \in 0..(IF method = "any" THEN 2 ELSE 1)}

\* lines 80-82: every row becomes an instance
dbGetWorkerReturns ==
  /\ pc = "await"
  /\ op.worker = "get"
  /\ \E fill \in SelectRows(op.method) :
       LET names == IF op.opt.override
                      THEN {c.name : c \in Range(getConfig(op.ctor).columns)}
                    ELSE Range(sent[1].statement.columns)
           row(j) == [k \in names |-> IF fill[j] THEN Num(j) ELSE Null]
       IN recs' = [j \in 1..Len(fill) |-> fixupResult(op.ctor, op.opt, row(j))]
  /\ outcome' = Resolved
  /\ pc' = "done"
  /\ UNCHANGED <<config, op, queries, handle, txCount, sent, res, rejected, returned>>

(***************************************************************************)
(* The caller takes the outcome; the pool is ready for the next call       *)
(***************************************************************************)
Return ==
  /\ pc = "done"
  /\ pc' = "idle"
  /\ op' = NoOp
  /\ recs' = <<>>
  /\ queries' = <<>>
  /\ handle' = "none"
  /\ txCount' = 0
  /\ sent' = <<>>
  /\ res' = <<>>
  /\ rejected' = "none"
  /\ outcome' = NoOutcome
  /\ returned' = <<>>
  /\ UNCHANGED config

\* pool.insert, pool.upsert, pool.update
Set == pc = "idle" /\ \E c \in SetCalls : dbSetWorker(c.records, c.mode, c.opt)

\* pool.delete
Delete == pc = "idle" /\ \E c \in DeleteCalls : dbDeleteWorker(c.isCtor, c.ctor, c.records, c.opt)

\* pool.any, pool.maybeOne with a record type
Get == pc = "idle" /\ \E c \in GetCalls : dbGetWorker(c.method, c.ctor, c.opt)

Next ==
  \/ Set
  \/ Delete
  \/ Get
  \/ performQueries
  \/ query
  \/ queryResolves
  \/ queryRejects
  \/ dbSetWorkerReturns
  \/ dbDeleteWorkerReturns
  \/ dbGetWorkerReturns
  \/ Return

Spec == Init /\ [][Next]_vars

(***************************************************************************)
(* Properties                                                              *)
(***************************************************************************)
\* a write call that resolved
SetResolved == pc = "done" /\ op.worker = "set" /\ outcome = Resolved

\* the value a returned database value has on the instance, by the column's
\* declaration: timestamps are read into dates, nulls stay as they are
Hydrated(c, value) ==
  IF c.config.type = "timestamptz" /\ value.t = "number" THEN DateOf(value.n) ELSE value

\* the rows reconciliation gets to: those before the first row that lacks a
\* column of the result type
ReconciledRows(rows, columnSet) ==
  {k \in 1..Len(rows) :
     \A j \in 1..k : \A c \in Range(columnSet) : c.dbName \in DOMAIN rows[j].cols}

\* C1: When a write with a result type other than None resolves, the values
\* of every returned row are on the instance at the row's __dbRecordIndex__
\* (counted from 0 over the whole batch, across chunks), whatever the place
\* of the row among the returned rows, and an instance no row names keeps
\* its values.
C1_RowsReconciledByIndex ==
  [][(/\ pc = "handleTransaction"
      /\ op.worker = "set"
      /\ ResultTypeOf(op.opt) # "None"
      /\ pc' = "done"
      /\ outcome' = Resolved)
     => LET rows == RowsOf(res)
            columnSet == IF ResultTypeOf(op.opt) = "PrimaryKeys"
                           THEN primaryKeyColumnsOf(op.ctor)
                         ELSE getSelectColumns(op.ctor)
            got == ReconciledRows(rows, columnSet)
        IN /\ \A k \in got :
                /\ rows[k].idx \in 0..(Len(recs) - 1)
                /\ \A c \in Range(columnSet) :
                     recs'[rows[k].idx + 1].vals[c.name] = Hydrated(c, rows[k].cols[c.dbName])
           /\ \A i \in 1..Len(recs) :
                (\A k \in got : rows[k].idx # i - 1) => recs'[i].vals = recs[i].vals]_vars

\* C1 witness: a resolved write of two chunks whose first statement returned
\* its rows in the reverse of the order sent, each with its own values
C1_Witness ==
  /\ SetResolved
  /\ ResultTypeOf(op.opt) = "Record"
  /\ Len(queries) = 2
  /\ \E k \in 1..Len(res) :
       /\ Len(res[k].rows) = 2
       /\ res[k].rows[1].idx = 1
       /\ res[k].rows[2].idx = 0
       /\ res[k].rows[1].cols # res[k].rows[2].cols
       /\ recs[2].vals["createdAt"] = Hydrated(getSelectColumns(op.ctor)[3],
                                               res[k].rows[1].cols["created_at"])
  /\ \E k \in 1..Len(res) : Len(res[k].rows) = 1 /\ res[k].rows[1].idx = 2

\* C2: When insert, upsert or update resolves, whatever the result type,
\* every instance of the batch has a snapshot equal to its current values and
\* reports no changed column.
C2_SnapshotAfterWrite ==
  SetResolved =>
    \A i \in 1..Len(recs) :
      /\ recs[i].snap
      /\ \A p \in DOMAIN recs[i].vals : Read(recs[i].orig, p) = Read(recs[i].vals, p)
      /\ getChangedColumns(recs[i]) = <<>>

\* C2 witness: a resolved write whose reconciliation put a value of the
\* database on an instance that had none
C2_Witness ==
  /\ SetResolved
  /\ op.mode = "update"
  /\ ResultTypeOf(op.opt) = "Record"
  /\ \E i \in 1..Len(recs) :
       /\ recs[i].vals["createdAt"] = DateOf(10 + i - 1)
       /\ recs[i].snap

\* an update whose columns option is not given, between the building of its
\* statements and its return (the batch is as the caller passed it)
UpdateBuilt ==
  /\ op.worker = "set"
  /\ op.mode = "update"
  /\ op.opt.columns.kind = "unset"
  /\ pc \in {"perform", "handleTransaction", "await"}

\* the database names of the columns at least one instance of the batch
\* reports as changed
ChangedUnion ==
  UNION {{c.dbName : c \in Range(getChangedColumns(recs[i]))} : i \in 1..Len(recs)}

\* the value an encoded record holds for the current value v of a column:
\* null for no value, an ISO string for the date of a timestamp column
Encoded(c, v) ==
  IF IsNullish(v) THEN Null
  ELSE IF c.config.type = "timestamptz" /\ v.t = "Date" THEN IsoString(v.n)
  ELSE v

\* every encoded record of every statement carries the current value of its
\* instance for every column of the SET clause
CarriesCurrentValues ==
  \A k \in 1..Len(queries) : \A j \in 1..Len(queries[k].objectBlock) :
    LET obj == queries[k].objectBlock[j]
        rec == recs[obj.index + 1]
    IN \A c \in Range(getInsertColumns(op.ctor)) :
         Includes(queries[k].setClause, c.dbName) =>
           /\ c.dbName \in DOMAIN obj.fields
           /\ obj.fields[c.dbName] = Encoded(c, Read(rec.vals, c.name))

\* C3 as stated: for an update without a columns option the SET clause is
\* the union of the changed columns of all instances, and every encoded
\* record carries its instance's current value for each of them.
C3_SetClauseIsChangedUnion ==
  UpdateBuilt =>
    /\ \A k \in 1..Len(queries) : Range(queries[k].setClause) = ChangedUnion
    /\ CarriesCurrentValues

\* C3: for an update without a columns option the SET clause is the union of
\* the changed columns of all instances, less the columns declared
\* excludeFromUpdate and the columns that are an own property of no
\* instance; an instance with no changed column adds none, and every encoded
\* record carries its instance's current value for each column of the clause.
C3_SetClauseIsWritableChangedUnion ==
  UpdateBuilt =>
    /\ \A k \in 1..Len(queries) :
         Range(queries[k].setClause) =
           {c.dbName : c \in {d \in Range(getInsertColumns(op.ctor)) :
                                /\ d.dbName \in ChangedUnion
                                /\ ~d.config.excludeFromUpdate
                                /\ \E i \in 1..Len(recs) : recs[i].vals[d.name] # Absent}}
    /\ CarriesCurrentValues

\* C3 witness: an update of an instance with no changed column beside one
\* that has some; the statement sets a column and the unchanged instance's
\* encoded record carries its value
C3_Witness ==
  /\ UpdateBuilt
  /\ Len(recs) = 2
  /\ getChangedColumns(recs[1]) = <<>>
  /\ getChangedColumns(recs[2]) # <<>>
  /\ Len(queries) = 1
  /\ queries[1].setClause = <<"name">>
  /\ queries[1].objectBlock[1].fields["name"] = recs[1].vals["name"]
  /\ queries[1].objectBlock[1].fields["name"] # queries[1].objectBlock[2].fields["name"]

\* a call of insert, upsert, update or delete: the callers of performQueries
ThroughPerformQueries == op.worker \in {"set", "delete"}

\* the statements a call is to send: the caller's starting statement if
\* given, the worker's statements, the caller's final statement if given
ExpectedOrder ==
  (IF op.opt.startingQuery THEN <<StartingQuery>> ELSE <<>>)
  \o queries
  \o (IF op.opt.finalQuery THEN <<FinalQuery>> ELSE <<>>)

\* C4: performQueries sends the starting statement (if given), then the
\* worker's statements in list order, then the final statement (if given);
\* at most one statement is in flight, result k is that of statement k, and
\* the list returned holds one result per statement sent, in that order.
C4_StatementsInOrder ==
  ThroughPerformQueries =>
    /\ Len(sent) <= Len(ExpectedOrder)
    /\ \A k \in 1..Len(sent) : sent[k].statement = ExpectedOrder[k]
    /\ Len(res) <= Len(sent)
    /\ Len(sent) <= Len(res) + 1
    /\ \A k \in 1..Len(res) : res[k].statement = k
    /\ outcome = Resolved =>
         /\ Len(sent) = Len(ExpectedOrder)
         /\ Len(returned) = Len(sent)
         /\ \A k \in 1..Len(returned) : returned[k].statement = k

\* C4 witness: a resolved write of two chunks with a starting and a final
\* statement: four statements sent, four results returned
C4_Witness ==
  /\ SetResolved
  /\ Len(queries) = 2
  /\ Len(returned) = 4
  /\ sent[1].statement.kind = "starting"
  /\ sent[2].statement = queries[1]
  /\ sent[3].statement = queries[2]
  /\ sent[4].statement.kind = "final"

\* C5: when a statement fails inside performQueries, no later statement of
\* the call is sent, the call ends with the driver's error as it was raised,
\* and no list of results is returned.
C5_FailureAborts ==
  /\ [](ThroughPerformQueries /\ rejected # "none" =>
          /\ pc = "done"
          /\ outcome = Threw(rejected)
          /\ returned = <<>>
          /\ Len(res) = Len(sent) - 1)
  /\ [][ThroughPerformQueries /\ rejected # "none" => sent' = sent \/ pc' = "idle"]_vars

\* C5 witness: the second statement of a write failed after the first had
\* returned a row, with statements still to send
C5_Witness ==
  /\ pc = "done"
  /\ op.worker = "set"
  /\ rejected = "UniqueViolation"
  /\ Len(sent) = 2
  /\ Len(res) = 1
  /\ Len(res[1].rows) > 0
  /\ Len(ExpectedOrder) > 2

\* C6: with a transaction handle in the options every statement of the call
\* goes to that handle and pool.transaction() is not called; without one the
\* call opens exactly one transaction and every statement goes to it.
C6_TransactionReuse ==
  ThroughPerformQueries =>
    IF op.opt.transaction
      THEN /\ txCount = 0
           /\ handle \in {"none", "transaction"}
           /\ \A k \in 1..Len(sent) : sent[k].on = "transaction"
    ELSE /\ txCount <= 1
         /\ handle = "pool.transaction" <=> txCount = 1
         /\ \A k \in 1..Len(sent) : sent[k].on = "pool.transaction"
         /\ sent # <<>> \/ outcome = Resolved => txCount = 1

\* C6 witness: a resolved write of several statements on the caller's
\* transaction
C6_Witness ==
  /\ SetResolved
  /\ op.opt.transaction
  /\ Len(sent) >= 3
  /\ txCount = 0

\* the failures the workers raise on their own account
LocalErrors ==
  {"EmptyBatch", "IncompatibleOptions", "MissingTable", "MixedTypes", "NoColumnsToUpdate",
   "InvalidIdentifier", "MissingPrimaryKey", "MissingPredicate", "MissingKeyValue",
   "UnexpectedValueExpression"}

\* C7: a call that ends with a validation failure of a select, write or
\* delete has sent no statement, the caller's startingQuery included, and
\* has opened no transaction.
C7_ValidationBeforeDatabase ==
  outcome.status = "throw" /\ outcome.error \in LocalErrors =>
    /\ sent = <<>>
    /\ res = <<>>
    /\ txCount = 0
    /\ handle = "none"

\* C7 witness: an update given a startingQuery ended with the last check of
\* the worker, the one for a type without primary key
C7_Witness ==
  /\ pc = "done"
  /\ op.worker = "set"
  /\ op.opt.startingQuery
  /\ outcome = Threw("MissingPrimaryKey")
  /\ sent = <<>>

\* the chunks' contents one after the other
RECURSIVE Concat(_)
Concat(lists) == IF lists = <<>> THEN <<>> ELSE Head(lists) \o Concat(Tail(lists))

\* ceil(n / limit)
CeilDiv(n, limit) == (n + limit - 1) \div limit

\* C8: a batch of n encoded records (write, limit insertChunkMax) or of n
\* instances deleted by primary key (limit deleteChunkMax) is sent as
\* ceil(n / limit) statements, none with more than limit elements, and the
\* statements' elements one after the other are the batch in input order.
C8_Chunking ==
  pc \in {"perform", "handleTransaction", "await"} =>
    /\ op.worker = "set" =>
         LET blocks == [k \in 1..Len(queries) |-> queries[k].objectBlock]
         IN /\ Len(queries) = CeilDiv(Len(recs), config.insertChunkMax)
            /\ \A k \in 1..Len(blocks) : Len(blocks[k]) \in 1..config.insertChunkMax
            /\ Len(Concat(blocks)) = Len(recs)
            /\ \A i \in 1..Len(recs) : Concat(blocks)[i].index = i - 1
    /\ op.worker = "delete" /\ ~op.isCtor /\ op.opt.whereClause = "unset" =>
         LET groups == [k \in 1..Len(queries) |-> queries[k].whereGroups]
         IN /\ Len(queries) = CeilDiv(Len(recs), config.deleteChunkMax)
            /\ \A k \in 1..Len(groups) : Len(groups[k]) \in 1..config.deleteChunkMax
            /\ Len(Concat(groups)) = Len(recs)
            /\ \A i \in 1..Len(recs) :
                 \A j \in 1..Len(Concat(groups)[i]) :
                   Concat(groups)[i][j].value = recs[i].vals[Concat(groups)[i][j].key]

\* C8 witness: three instances under a limit of two: a statement of two and
\* a statement of one
C8_Witness ==
  /\ pc = "perform"
  /\ op.worker = "set"
  /\ config.insertChunkMax = 2
  /\ Len(recs) = 3
  /\ Len(queries) = 2
  /\ Len(queries[1].objectBlock) = 2
  /\ Len(queries[2].objectBlock) = 1

\* a DELETE that removes every row of its table: one without a predicate
DeletesAllRows(stmt) == stmt.kind = "delete" /\ ~stmt.hasWhere

\* C9 as stated: delete rejects a zero-length array with an empty-batch
\* error and a bare record type without whereClause with a missing-predicate
\* error; a bare record type with an explicitly empty whereClause is
\* accepted and yields exactly one DELETE for the table that deletes all
\* rows.
C9_DeleteByTypeNeedsPredicate ==
  op.worker = "delete" =>
    /\ ~op.isCtor /\ Len(recs) = 0 => outcome = Threw("EmptyBatch")
    /\ op.isCtor /\ op.opt.whereClause = "unset" => outcome = Threw("MissingPredicate")
    /\ op.isCtor /\ op.opt.whereClause = "empty" /\ TableNameOf(op.opt, op.ctor) # "" =>
         /\ outcome.error \notin LocalErrors
         /\ Len(queries) = 1
         /\ queries[1].table = TableNameOf(op.opt, op.ctor)
         /\ DeletesAllRows(queries[1])

\* the part of C9 about the calls that are refused, and about the number of
\* statements of the call that is not
C9_RefusalsAndOneStatement ==
  op.worker = "delete" =>
    /\ ~op.isCtor /\ Len(recs) = 0 => outcome = Threw("EmptyBatch")
    /\ op.isCtor /\ op.opt.whereClause = "unset" => outcome = Threw("MissingPredicate")
    /\ op.isCtor /\ op.opt.whereClause = "empty" /\ TableNameOf(op.opt, op.ctor) # "" =>
         /\ outcome.error \notin LocalErrors
         /\ Len(queries) = 1
         /\ queries[1].kind = "delete"
         /\ queries[1].table = TableNameOf(op.opt, op.ctor)

\* the conflict keys of a call: the conflictKey option if given, otherwise
\* the primary keys of the type
ResolvedConflictKeys ==
  IF op.opt.conflictKey.given THEN op.opt.conflictKey.keys ELSE getPrimaryKeys(op.ctor)

\* C10: a statement of a write has an ON CONFLICT clause exactly if the
\* write is an upsert and its conflict keys (the conflictKey option if
\* given, the primary keys otherwise) are not empty; the clause names those
\* keys.  The statements of insert and update never have one.
C10_OnConflictOnlyInUpsert ==
  op.worker = "set" =>
    \A k \in 1..Len(queries) :
      /\ queries[k].onConflict.present <=>
           (op.mode = "upsert" /\ Len(ResolvedConflictKeys) > 0)
      /\ queries[k].onConflict.present =>
           /\ queries[k].kind = "insert"
           /\ queries[k].onConflict.keys = ResolvedConflictKeys

\* C10 witness: an upsert of a type with a primary key, called with an empty
\* conflictKey list: its statement is a plain INSERT
C10_Witness ==
  /\ op.worker = "set"
  /\ op.mode = "upsert"
  /\ getPrimaryKeys(op.ctor) # <<>>
  /\ op.opt.conflictKey.given
  /\ op.opt.conflictKey.keys = <<>>
  /\ Len(queries) >= 1
  /\ queries[1].kind = "insert"
  /\ ~queries[1].onConflict.present

\* an upsert without a conflictKey option whose statements are built
UpsertOnPrimaryKeys ==
  /\ op.worker = "set"
  /\ op.mode = "upsert"
  /\ ~op.opt.conflictKey.given
  /\ queries # <<>>

\* the declared primary-key columns of a type
PrimaryKeyDeclarations(T) ==
  {c \in Range(getConfig(T).columns) : NonNegativeNumber(c.primaryKey)}

\* keys names every declared primary key of T once, lowest primaryKey first
InPrimaryKeyOrder(keys, T) ==
  /\ Range(keys) = {c.name : c \in PrimaryKeyDeclarations(T)}
  /\ Len(keys) = Cardinality(PrimaryKeyDeclarations(T))
  /\ \A i \in 1..Len(keys) : \A j \in (i + 1)..Len(keys) :
       \A c, d \in PrimaryKeyDeclarations(T) :
         c.name = keys[i] /\ d.name = keys[j] => c.primaryKey.n <= d.primaryKey.n

\* C11 as stated: in an upsert without conflictKey the ON CONFLICT target is
\* the full primary-key set in primary-key order, a bare column reference
\* for a single primary key and a parenthesized list only for a composite
\* key.
C11_ConflictTargetBareForSingleKey ==
  UpsertOnPrimaryKeys =>
    \A k \in 1..Len(queries) :
      queries[k].onConflict.present =>
        /\ InPrimaryKeyOrder(queries[k].onConflict.keys, op.ctor)
        /\ queries[k].onConflict.keysParens <=> Len(queries[k].onConflict.keys) > 1

\* C11: in an upsert without conflictKey the ON CONFLICT target is the full
\* primary-key set of the record type in primary-key order, written as a
\* parenthesized list whether the type declares one primary key or several.
C11_ConflictTargetIsPrimaryKeyList ==
  UpsertOnPrimaryKeys =>
    \A k \in 1..Len(queries) :
      /\ queries[k].onConflict.present <=> PrimaryKeyDeclarations(op.ctor) # {}
      /\ queries[k].onConflict.present =>
           /\ InPrimaryKeyOrder(queries[k].onConflict.keys, op.ctor)
           /\ queries[k].onConflict.keysParens

\* C11 witness: the upsert of a type with a composite key whose key order
\* is not the order of declaration
C11_Witness ==
  /\ UpsertOnPrimaryKeys
  /\ op.ctor = "Pair"
  /\ queries[1].onConflict.present
  /\ queries[1].onConflict.keys = <<"b", "a">>
  /\ queries[1].onConflict.keysParens

\* an update of a non-empty batch of one type that has a table name and
\* declares no primary key
UpdateWithoutPrimaryKey ==
  /\ op.worker = "set"
  /\ op.mode = "update"
  /\ Len(recs) > 0
  /\ \A i \in 1..Len(recs) : recs[i].ctor = op.ctor
  /\ TableNameOf(op.opt, op.ctor) # ""
  /\ PrimaryKeyDeclarations(op.ctor) = {}

\* C12 as stated: such an update fails with MissingPrimaryKey whatever the
\* dirty state of the instances and the columns option, and no statement is
\* built or sent.
C12_AlwaysMissingPrimaryKey ==
  UpdateWithoutPrimaryKey =>
    /\ outcome = Threw("MissingPrimaryKey")
    /\ queries = <<>>
    /\ sent = <<>>

\* C12: such an update always fails and no statement is built or sent.  It
\* fails with IncompatibleOptions for alterSql with syncRecords, else with
\* NoColumnsToUpdate when no column is left to set, else with
\* InvalidIdentifier when a column to write has a database name that is no
\* identifier, and with MissingPrimaryKey otherwise.
C12_UpdateWithoutPrimaryKeyFails ==
  UpdateWithoutPrimaryKey =>
    /\ pc = "done"
    /\ queries = <<>>
    /\ sent = <<>>
    /\ outcome =
         Threw(IF op.opt.alterSql /\ op.opt.syncRecords THEN "IncompatibleOptions"
               ELSE IF updatableColumnsOf(recs, "update", op.opt) = <<>>
                 THEN "NoColumnsToUpdate"
               ELSE IF \E c \in Range(insertableColumnsOf(recs, "update", op.opt)) :
                         ~isValidPostgresIdentifier(c.dbName)
                 THEN "InvalidIdentifier"
               ELSE "MissingPrimaryKey")

\* C12 witness: the update of two instances of a type without primary key,
\* with an explicit columns list, ended with MissingPrimaryKey
C12_Witness ==
  /\ UpdateWithoutPrimaryKey
  /\ Len(recs) = 2
  /\ op.opt.columns.kind = "list"
  /\ outcome = Threw("MissingPrimaryKey")
  /\ queries = <<>>

\* an instance whose values are those of its snapshot
Unchanged(rec) ==
  /\ rec.snap
  /\ \A p \in DOMAIN rec.vals : Read(rec.orig, p) = Read(rec.vals, p)

\* C13: an update without a columns option of a batch in which every
\* instance is unchanged since its last snapshot (a non-empty batch of one
\* type with a table name, options compatible) fails with
\* NoColumnsToUpdate; no statement is built or sent, no transaction is
\* opened, and the instances keep their values and snapshots.
C13_UnchangedBatchNothingToUpdate ==
  [][/\ (/\ pc = "idle"
          /\ op'.worker = "set"
          /\ op'.mode = "update"
          /\ op'.opt.columns.kind = "unset"
          /\ ~(op'.opt.alterSql /\ op'.opt.syncRecords)
          /\ Len(recs') > 0
          /\ \A i \in 1..Len(recs') : recs'[i].ctor = op'.ctor /\ Unchanged(recs'[i])
          /\ TableNameOf(op'.opt, op'.ctor) # "")
         => /\ pc' = "done"
            /\ outcome' = Threw("NoColumnsToUpdate")
            /\ queries' = <<>>
            /\ sent' = <<>>
            /\ txCount' = 0
     /\ (outcome = Threw("NoColumnsToUpdate") /\ pc' # "idle")
         => recs' = recs /\ sent' = sent]_vars

\* C13 witness: the update of three loaded, unchanged instances ended with
\* NoColumnsToUpdate
C13_Witness ==
  /\ pc = "done"
  /\ op.worker = "set"
  /\ op.mode = "update"
  /\ op.opt.columns.kind = "unset"
  /\ Len(recs) = 3
  /\ \A i \in 1..3 : Unchanged(recs[i])
  /\ outcome = Threw("NoColumnsToUpdate")
  /\ sent = <<>>

\* a delete of a non-empty batch of instances of one type that has a table
\* name and primary keys, without whereClause
DeleteByInstances ==
  /\ op.worker = "delete"
  /\ ~op.isCtor
  /\ op.opt.whereClause = "unset"
  /\ Len(recs) > 0
  /\ \A i \in 1..Len(recs) : recs[i].ctor = op.ctor
  /\ TableNameOf(op.opt, op.ctor) # ""
  /\ PrimaryKeyDeclarations(op.ctor) # {}

\* some instance of the batch has undefined or null for a primary-key column
SomeKeyValueMissing ==
  \E i \in 1..Len(recs) : \E c \in PrimaryKeyDeclarations(op.ctor) :
    IsNullish(Read(recs[i].vals, c.prop))

\* C14 as stated: a delete by instances fails with MissingKeyValue exactly
\* when some instance has undefined or null for a declared primary-key
\* column; when every primary-key column of every instance holds a value,
\* 0 included, the call is accepted and every instance has one group of
\* primary-key equalities in the WHERE clause of its chunk.
C14_MissingKeyValueOnlyForNoValue ==
  DeleteByInstances =>
    /\ outcome = Threw("MissingKeyValue") <=> SomeKeyValueMissing
    /\ ~SomeKeyValueMissing =>
         LET groups == Concat([k \in 1..Len(queries) |-> queries[k].whereGroups])
         IN /\ Len(groups) = Len(recs)
            /\ \A i \in 1..Len(recs) :
                 /\ InPrimaryKeyOrder([j \in 1..Len(groups[i]) |-> groups[i][j].key], op.ctor)
                 /\ \A j \in 1..Len(groups[i]) :
                      groups[i][j].value = recs[i].vals[groups[i][j].key]

\* what the code does in place of C14: the call is refused exactly when a
\* primary-key value is falsy, which takes in 0, false and the empty string
C14_RefusesFalsyKeyValues ==
  DeleteByInstances /\ config.deleteChunkMax >= 1 =>
    (outcome = Threw("MissingKeyValue") <=>
       \E i \in 1..Len(recs) : \E c \in PrimaryKeyDeclarations(op.ctor) :
         IsFalsy(Read(recs[i].vals, c.prop)))

\* a write whose statements are built, before the worker returns (the
\* batch is as the caller passed it)
WriteBuilt ==
  /\ op.worker = "set"
  /\ pc \in {"perform", "handleTransaction", "await"}

\* the declared columns of the type in hand that are excludeFromUpdate
ExcludedFromUpdate == {c \in Range(getConfig(op.ctor).columns) : c.excludeFromUpdate}

\* C15: a column declared excludeFromUpdate is in no SET clause of an update
\* and in no DO UPDATE SET clause of an upsert, whatever the batch and the
\* columns option; the INSERT part of insert and upsert still writes it
\* when it is a column to write (own property of an instance, passing the
\* write filter, named by the columns list if there is one).
C15_ExcludeFromUpdate ==
  WriteBuilt =>
    \A k \in 1..Len(queries) : \A c \in ExcludedFromUpdate :
      /\ ~Includes(queries[k].setClause, c.name)
      /\ ~Includes(queries[k].onConflict.setTargets, c.name)
      /\ ~Includes(queries[k].onConflict.setValues, c.name)
      /\ (/\ op.mode \in {"insert", "upsert"}
          /\ c.out # "false" /\ ~c.exclude
          /\ \E i \in 1..Len(recs) : recs[i].vals[c.prop] # Absent
          /\ op.opt.columns.kind = "list" => Includes(op.opt.columns.list, c.prop))
         => Includes(queries[k].columns, c.name)

\* C15 witness: an upsert whose columns list names the excludeFromUpdate
\* column: the INSERT part writes it, DO UPDATE SET sets only the other one
C15_Witness ==
  /\ WriteBuilt
  /\ op.mode = "upsert"
  /\ op.opt.columns.list = <<"createdAt", "id">>
  /\ queries[1].columns = <<"id", "created_at">>
  /\ queries[1].onConflict.present
  /\ queries[1].onConflict.setTargets = <<"id">>

\* a select with a record type that resolved: recs are the hydrated instances
GetResolved == pc = "done" /\ op.worker = "get" /\ outcome = Resolved

\* C16 as stated: no property of an instance hydrated by a select is null;
\* a column that came back as SQL null leaves undefined, with or without a
\* read-transform on the column.
C16_NullHydratesAsUndefined ==
  GetResolved =>
    \A i \in 1..Len(recs) : \A p \in DOMAIN recs[i].vals : recs[i].vals[p] # Null

\* what the code does in place of C16: only the property of a column with
\* a read-transform function can be null (the transform was handed the null
\* and returned it)
C16_NullOnlyThroughTransform ==
  GetResolved =>
    \A i \in 1..Len(recs) : \A p \in DOMAIN recs[i].vals :
      recs[i].vals[p] = Null =>
        \E c \in Range(getColumnsOf(op.ctor, op.opt)) : c.name = p /\ IsFunction(c.config.in)

\* C17 as stated: whatever plusConfig createPoolPlus was given, both chunk
\* limits of the pool are positive integers, and no write or delete stays
\* in its chunk-building loop.
C17_ChunkLimitsPositive ==
  /\ config.insertChunkMax \in Nat \ {0}
  /\ config.deleteChunkMax \in Nat \ {0}
  /\ pc # "createQueries"

\* what holds in place of C17: the limits are those of plusConfig as given,
\* and a call stays in its chunk loop exactly if its limit is below 1
C17_LoopEndsForPositiveLimit ==
  /\ pc = "createQueries" /\ op.worker = "set" => config.insertChunkMax < 1
  /\ pc = "createQueries" /\ op.worker = "delete" => config.deleteChunkMax < 1
  /\ (op.worker = "set" /\ config.insertChunkMax >= 1) => pc # "createQueries"
  /\ (op.worker = "delete" /\ config.deleteChunkMax >= 1) => pc # "createQueries"

\* the columns a returned row is expected to have
ExpectedColumns ==
  IF ResultTypeOf(op.opt) = "PrimaryKeys" THEN primaryKeyColumnsOf(op.ctor)
  ELSE getSelectColumns(op.ctor)

\* the row has every expected column
Complete(row) == \A c \in Range(ExpectedColumns) : c.dbName \in DOMAIN row.cols

\* C18 as stated: a returned row that lacks an expected column raises no
\* error, and every returned row of the operation that has all expected
\* columns, in the same or a later result, has its values on its instance.
C18_OtherRowsStillReconciled ==
  /\ pc = "done"
  /\ op.worker = "set"
  /\ ResultTypeOf(op.opt) # "None"
  /\ Len(res) = Len(ExpectedOrder)
  =>
  LET rows == RowsOf(res)
  IN /\ (\E k \in 1..Len(rows) : ~Complete(rows[k])) => outcome = Resolved
     /\ outcome = Resolved =>
          \A k \in 1..Len(rows) :
            Complete(rows[k]) /\ rows[k].idx \in 0..(Len(recs) - 1) =>
              \A c \in Range(ExpectedColumns) :
                recs[rows[k].idx + 1].vals[c.name] = Hydrated(c, rows[k].cols[c.dbName])

\* what the code does in place of C18: after a row that lacks an expected
\* column no row is reconciled; a resolved write that met such a row first
\* has every instance with the values it was passed with
C18_NothingAfterIncompleteRow ==
  [][(/\ pc = "handleTransaction"
      /\ op.worker = "set"
      /\ ResultTypeOf(op.opt) # "None"
      /\ pc' = "done"
      /\ RowsOf(res) # <<>>
      /\ ~Complete(RowsOf(res)[1]))
     => /\ outcome' = Resolved
        /\ \A i \in 1..Len(recs) : recs'[i].vals = recs[i].vals]_vars

\* the value of a property in the snapshot of an instance, its current
\* value when the instance has no snapshot
SnapshotValue(rec, prop) == IF rec.snap THEN Read(rec.orig, prop) ELSE Read(rec.vals, prop)

InsertBuiltWithoutList ==
  /\ WriteBuilt
  /\ op.mode \in {"insert", "upsert"}
  /\ op.opt.columns.kind # "list"

\* the declared columns that pass the write filter
WriteDeclarations == {c \in Range(getConfig(op.ctor).columns) : c.out # "false" /\ ~c.exclude}

\* the property is an own enumerable property of at least one instance
CarriedBySome(prop) == \E i \in 1..Len(recs) : prop \in OwnKeys(recs[i])

\* C20: for insert and upsert without a columns list, the columns written
\* are exactly the declared columns that pass the write filter and are an
\* own property of at least one instance of the batch; every encoded record
\* has a field for each of them.
C20_WriteColumnsCarriedBySome ==
  InsertBuiltWithoutList =>
    \A k \in 1..Len(queries) :
      LET q == queries[k]
          selected == {c.name : c \in {d \in WriteDeclarations : CarriedBySome(d.prop)}}
      IN /\ q.kind = "insert"
         /\ Range(q.columns) = selected
         /\ Len(q.columns) = Cardinality(selected)
         /\ \A j \in 1..Len(q.objectBlock) : selected \subseteq DOMAIN q.objectBlock[j].fields

\* a batch is written of which no instance carries one writable column and
\* only some instances carry another
C20_Witness ==
  /\ InsertBuiltWithoutList
  /\ queries # <<>>
  /\ \E c \in WriteDeclarations :
       ~CarriedBySome(c.prop) /\ ~Includes(queries[1].columns, c.name)
  /\ \E c \in WriteDeclarations :
       /\ Includes(queries[1].columns, c.name)
       /\ \E i \in 1..Len(recs) : c.prop \notin OwnKeys(recs[i])

\* the selected write column c of statement q is one that the instance of
\* the encoded record obj omits and another instance of the batch carries
OmittedHere(q, obj, c) ==
  /\ c.name \in Range(q.columns) \cup Range(q.setClause)
  /\ c.name \in DOMAIN obj.fields
  /\ c.prop \notin OwnKeys(recs[obj.index + 1])
  /\ CarriedBySome(c.prop)

\* C21 as stated: the encoded record of an instance that omits a property
\* which another instance of the batch carries has no value for the column
\* (undefined, which JSON leaves out), not null.
C21_OmittedPropertyFieldAbsent ==
  WriteBuilt =>
    \A k \in 1..Len(queries) : \A j \in 1..Len(queries[k].objectBlock) :
      \A c \in WriteDeclarations :
        OmittedHere(queries[k], queries[k].objectBlock[j], c) =>
          queries[k].objectBlock[j].fields[c.name] = Undef

\* what the code does in place of C21: the field is there and holds null
C21_OmittedPropertyEncodedNull ==
  WriteBuilt =>
    \A k \in 1..Len(queries) : \A j \in 1..Len(queries[k].objectBlock) :
      \A c \in WriteDeclarations :
        OmittedHere(queries[k], queries[k].objectBlock[j], c) =>
          queries[k].objectBlock[j].fields[c.name] = Null

\* C22: when a statement of a write or of a delete by instances fails, the
\* operation changes no instance of the batch: from the call to the failure
\* no row is reconciled onto an instance and no snapshot is replaced, also
\* when statements of earlier chunks had succeeded.
C22_FailureChangesNoInstance ==
  [][(/\ op.worker \in {"set", "delete"}
      /\ pc \in {"perform", "handleTransaction", "await"}
      /\ ~(pc' = "done" /\ rejected' = "none"))
     => recs' = recs]_vars

\* a write that returns rows failed at a later statement: the first
\* statement had returned the row of a fresh instance with a generated
\* value, and the instance is still without that value and without snapshot
C22_Witness ==
  /\ pc = "done"
  /\ op.worker = "set"
  /\ ResultTypeOf(op.opt) = "Record"
  /\ rejected # "none"
  /\ Len(res) >= 1
  /\ \E k \in 1..Len(RowsOf(res)) :
       LET row == RowsOf(res)[k]
       IN /\ row.idx \in 0..(Len(recs) - 1)
          /\ "created_at" \in DOMAIN row.cols
          /\ recs[row.idx + 1].vals["createdAt"] = Absent
          /\ ~recs[row.idx + 1].snap

\* C23 as stated: in every upsert statement with an ON CONFLICT clause the
\* DO UPDATE SET target list and the EXCLUDED value list name the same
\* sequence of columns, that sequence is not empty, and the two lists are
\* both parenthesized or both bare.
C23_SetTargetsMatchValues ==
  op.worker = "set" =>
    \A k \in 1..Len(queries) :
      queries[k].onConflict.present =>
        /\ queries[k].onConflict.setTargets = queries[k].onConflict.setValues
        /\ queries[k].onConflict.setTargets # <<>>
        /\ queries[k].onConflict.targetParens = queries[k].onConflict.valueParens

\* what the code does in place of C23: the two lists name the same columns,
\* the written columns that are not excludeFromUpdate; the target list is
\* parenthesized when two or more columns are written, the value list when
\* two or more columns are updated
C23_ParenthesesByDifferentCounts ==
  op.worker = "set" =>
    \A k \in 1..Len(queries) :
      LET q == queries[k]
      IN q.onConflict.present =>
           /\ q.onConflict.setTargets = q.onConflict.setValues
           /\ q.onConflict.setTargets =
                SelectSeq(q.columns,
                          LAMBDA n : \A c \in ExcludedFromUpdate : c.name # n)
           /\ q.onConflict.targetParens <=> Len(q.columns) >= 2
           /\ q.onConflict.valueParens <=> Len(q.onConflict.setValues) >= 2

\* a delete called with instances and a whereClause, for a table that is
\* named by the type or by the options
DeleteByPredicateWithInstances ==
  /\ op.worker = "delete"
  /\ ~op.isCtor
  /\ op.opt.whereClause # "unset"
  /\ Len(recs) > 0
  /\ TableNameOf(op.opt, op.ctor) # ""

\* C24: a delete called with instances and a whereClause builds exactly one
\* DELETE, which carries the caller's predicate and no condition on the
\* primary keys of the instances, whatever deleteChunkMax is; when the call
\* succeeds every instance passed is snapshotted.
C24_PredicateOverridesInstances ==
  DeleteByPredicateWithInstances =>
    /\ pc # "createQueries"
    /\ outcome.error \notin LocalErrors
    /\ Len(queries) = 1
    /\ queries[1].kind = "delete"
    /\ queries[1].table = TableNameOf(op.opt, op.ctor)
    /\ queries[1].hasWhere
    /\ queries[1].predicate = op.opt.whereClause
    /\ queries[1].whereGroups = <<>>
    /\ (pc = "done" /\ outcome = Resolved) =>
         \A i \in 1..Len(recs) : recs[i].snap /\ recs[i].orig = recs[i].vals

\* a delete with a predicate succeeded for more instances than one chunk
\* holds, of which one has no primary key value: one statement was sent and
\* the instances are snapshotted
C24_Witness ==
  /\ DeleteByPredicateWithInstances
  /\ pc = "done"
  /\ outcome = Resolved
  /\ Len(recs) > config.deleteChunkMax
  /\ config.deleteChunkMax >= 1
  /\ \E i \in 1..Len(recs) : whereClauseError(recs[i]) # "none"
  /\ Len(sent) = 1
  /\ sent[1].statement.predicate = "predicate"
  /\ \A i \in 1..Len(recs) : recs[i].snap

====
